---------------------------- MODULE Spec2Model ----------------------------
(***************************************************************************)
(* CRP workflow bot (src/Baby Foot AU/cro101/var-1.js): a Slack modal      *)
(* wizard that creates or updates A/B test variation files in a GitHub     *)
(* repository.                                                             *)
(*                                                                         *)
(* JavaScript strings are sequences of tokens (single characters, or whole *)
(* literal fragments of the source's template strings; the "/" of a path   *)
(* is always a token of its own); null and undefined are two distinguished *)
(* sequences that no string equals.  Numbers are records [nan, n] so that  *)
(* NaN is a value of its own.                                              *)
(***************************************************************************)
EXTENDS Integers, Sequences, FiniteSets, TLC

(***************************************************************************)
(* Bounds of the model.                                                    *)
(***************************************************************************)
\* longest text typed into a numeric field (variation count, variation number)
MaxRawLen == 2
\* longest text typed into the test-name field
MaxNameLen == 2

\* characters a user types into a numeric field
RawChars == {" ", "-", "0", "1", "3", "6", "a"}
\* characters a user types into the test-name field
NameChars == {" ", "t"}
\* snippet texts a user types (the empty field, one non-empty text)
Snippets == {<<>>, <<"x">>}
\* messages of the remote failures (e.message) other than not-found
ErrorMessages == {<<"E403">>, <<"E500">>}
\* the wizard flows (one per user who may run the command)
Flows == {1, 2}

(***************************************************************************)
(* JavaScript values.                                                      *)
(***************************************************************************)
Null == <<"#null">>
Undefined == <<"#undefined">>

\* a string is truthy unless it is empty; null and undefined are falsy
Truthy(s) == s # Null /\ s # Undefined /\ s # <<>>

\* a || b on strings
Or(a, b) == IF Truthy(a) THEN a ELSE b

NaN == [nan |-> TRUE, n |-> 0]
Num(k) == [nan |-> FALSE, n |-> k]

\* a || b on numbers: NaN and 0 are falsy
NumOr(a, b) == IF a.nan \/ a.n = 0 THEN b ELSE a

\* Math.min / Math.max on numbers neither of which is NaN
MathMin(a, b) == IF a.n <= b.n THEN a ELSE b
MathMax(a, b) == IF a.n >= b.n THEN a ELSE b

\* all strings over an alphabet up to a length
StringsUpTo(chars, len) == UNION {[1..k -> chars] : k \in 0..len}

DigitChars == <<"0", "1", "2", "3", "4", "5", "6", "7", "8", "9">>
IsDigit(c) == \E d \in 1..10 : DigitChars[d] = c
DigitValue(c) == (CHOOSE d \in 1..10 : DigitChars[d] = c) - 1
IsSpace(c) == c = " "

RECURSIVE TrimStart(_)
TrimStart(s) ==
    IF s # <<>> /\ IsSpace(Head(s)) THEN TrimStart(Tail(s)) ELSE s

RECURSIVE TrimEnd(_)
TrimEnd(s) ==
    IF s # <<>> /\ IsSpace(s[Len(s)]) THEN TrimEnd(SubSeq(s, 1, Len(s) - 1)) ELSE s

\* variant: nothing is trimmed
TrimNone(s) == s

\* String.prototype.trim
Trim(s) == TrimEnd(TrimStart(s))

\* the value of the longest prefix of decimal digits of s, continuing from acc
RECURSIVE DigitsValue(_, _)
DigitsValue(s, acc) ==
    IF s # <<>> /\ IsDigit(Head(s))
    THEN DigitsValue(Tail(s), 10 * acc + DigitValue(Head(s)))
    ELSE acc

\* parseInt(s, 10): leading white space is skipped, an optional sign is read,
\* then the longest run of digits; NaN when there is no digit there
parseInt(s) ==
    LET t == TrimStart(s)
        signed == t # <<>> /\ Head(t) \in {"-", "+"}
        body == IF signed THEN Tail(t) ELSE t
        mag == DigitsValue(body, 0)
    IN  IF body = <<>> \/ ~IsDigit(Head(body)) THEN NaN
        ELSE IF signed /\ Head(t) = "-" THEN Num(0 - mag)
        ELSE Num(mag)

RECURSIVE Decimal(_)
Decimal(k) ==
    IF k < 10 THEN <<DigitChars[k + 1]>>
    ELSE Decimal(k \div 10) \o <<DigitChars[(k % 10) + 1]>>

\* `${v}` for a number v
NumToString(v) ==
    IF v.nan THEN <<"N", "a", "N">>
    ELSE IF v.n < 0 THEN <<"-">> \o Decimal(0 - v.n)
    ELSE Decimal(v.n)

IsPrefix(p, s) == Len(p) <= Len(s) /\ SubSeq(s, 1, Len(p)) = p


(***************************************************************************)
(* GitHub: the repository is a map from the paths of its files to their    *)
(* contents; a directory exists exactly while a file lies below it.        *)
(***************************************************************************)
\* the blob sha of a file: a function of its content alone
BlobSha(content) == <<"sha:">> \o content

IsFile(files, path) == path \in DOMAIN files
IsDirectory(files, path) ==
    \E q \in DOMAIN files : IsPrefix(path \o <<"/">>, q)
HasFileAncestor(files, path) ==
    \E q \in DOMAIN files : IsPrefix(q \o <<"/">>, path)

Response(status, isArray, sha, message) ==
    [status |-> status, isArray |-> isArray, sha |-> sha, message |-> message]

\* octokit.repos.getContent when the request reaches GitHub
getContent(files, path) ==
    IF IsFile(files, path) THEN Response(200, FALSE, BlobSha(files[path]), <<>>)
    ELSE IF IsDirectory(files, path) THEN Response(200, TRUE, Undefined, <<>>)
    ELSE Response(404, FALSE, Undefined, <<"Not Found">>)

\* the responses a getContent call can end with: GitHub's answer, or a
\* failure that is not a not-found (permission, rate limit, transport)
GetContentResponses(files, path) ==
    {getContent(files, path)}
        \cup {Response(500, FALSE, Undefined, m) : m \in ErrorMessages}

\* the outcome of an async call: a returned value, or a thrown error
Returned(value) == [thrown |-> FALSE, value |-> value, message |-> <<>>]
Thrown(message) == [thrown |-> TRUE, value |-> Undefined, message |-> message]

\* variant: a not-found is thrown like any other failure
githubGetFileShaThrows404(res) ==
    IF res.status = 200
    THEN IF res.isArray THEN Returned(<<"DIR">>)
         ELSE IF Truthy(res.sha) THEN Returned(res.sha)
         ELSE Returned(Null)
    ELSE Thrown(res.message)

\* githubGetFileSha, given the response of its getContent call
githubGetFileSha(res) ==
    IF res.status = 200
    THEN IF res.isArray THEN Returned(<<"DIR">>)
         ELSE IF Truthy(res.sha) THEN Returned(res.sha)
         ELSE Returned(Null)
    ELSE IF res.status = 404 THEN Returned(Null)
    ELSE Thrown(res.message)

\* octokit.repos.createOrUpdateFileContents when the request reaches GitHub:
\* a new file takes no sha, an existing file takes its current blob sha
createOrUpdateFileContents(files, path, sha) ==
    IF IsDirectory(files, path) \/ HasFileAncestor(files, path)
    THEN Response(422, FALSE, Undefined, <<"E422">>)
    ELSE IF ~IsFile(files, path)
    THEN IF sha = Undefined THEN Response(201, FALSE, Undefined, <<>>)
         ELSE Response(422, FALSE, Undefined, <<"E422">>)
    ELSE IF sha = Undefined THEN Response(422, FALSE, Undefined, <<"E422">>)
    ELSE IF sha = BlobSha(files[path]) THEN Response(200, FALSE, Undefined, <<>>)
    ELSE Response(409, FALSE, Undefined, <<"E409">>)

PutResponses(files, path, sha) ==
    {createOrUpdateFileContents(files, path, sha)}
        \cup {Response(500, FALSE, Undefined, m) : m \in ErrorMessages}

Succeeded(res) == res.status \in {200, 201}

\* the repository after a createOrUpdateFileContents call that ended with res
FilesAfterPut(files, path, content, res) ==
    IF Succeeded(res)
    THEN [q \in DOMAIN files \cup {path} |->
              IF q = path THEN content ELSE files[q]]
    ELSE files

\* githubWriteFile, given the response of its createOrUpdateFileContents call
githubWriteFile(res) ==
    IF Succeeded(res) THEN Returned(Undefined) ELSE Thrown(res.message)

(***************************************************************************)
(* Config (CLIENTS_JSON)                                                   *)
(***************************************************************************)
ClientConfig(owner, repo, testsPath) ==
    [isObject |-> TRUE, owner |-> owner, repo |-> repo, testsPath |-> testsPath]
NoConfig ==
    [isObject |-> FALSE, owner |-> Undefined, repo |-> Undefined,
     testsPath |-> Undefined]

\* a configured client, and an entry whose value is null
CLIENTS ==
    (<<"acme">> :> ClientConfig(<<"acme-org">>, <<"site">>, <<"acme-tests">>))
        @@ (<<"ghost">> :> NoConfig)

\* CLIENTS[clientKey]: undefined for a key the mapping lacks
ClientsAt(clientKey) ==
    IF clientKey \in DOMAIN CLIENTS THEN CLIENTS[clientKey] ELSE NoConfig

clientOptions == DOMAIN CLIENTS

\* one entry of view.state.values: a text input carries value, a select
\* carries selected_option.value
TextValue(action_id, value) ==
    [action_id |-> action_id, value |-> value, selected |-> Undefined]
SelectValue(action_id, selected) ==
    [action_id |-> action_id, value |-> Undefined, selected |-> selected]

getStateValue(state, blockId, actionId) ==
    IF blockId \in DOMAIN state /\ state[blockId].action_id = actionId
    THEN Or(state[blockId].value, Or(state[blockId].selected, Null))
    ELSE Null

(***************************************************************************)
(* private_metadata: JSON.stringify writes an object's defined members in  *)
(* order, each value as its JSON text; JSON.parse reads the members back.  *)
(***************************************************************************)
JString(s) ==
    IF s = Undefined THEN [type |-> "undefined", text |-> <<>>]
    ELSE IF s = Null THEN [type |-> "null", text |-> <<"null">>]
    ELSE [type |-> "string", text |-> s]
JBoolean(b) ==
    [type |-> "boolean", text |-> IF b THEN <<"true">> ELSE <<"false">>]
JNumber(v) ==
    IF v.nan THEN [type |-> "null", text |-> <<"null">>]
    ELSE [type |-> "number", text |-> NumToString(v)]
JUndefined == [type |-> "undefined", text |-> <<>>]

Member(key, value) == [key |-> key, type |-> value.type, text |-> value.text]

JSONstringify(members) ==
    SelectSeq(members, LAMBDA m : m.type # "undefined")

\* the object JSON.parse returns: a later member of the same key wins
JSONparse(text) ==
    [k \in {text[i].key : i \in DOMAIN text} |->
        LET last == CHOOSE i \in DOMAIN text :
                        /\ text[i].key = k
                        /\ \A j \in DOMAIN text : text[j].key = k => j <= i
        IN  [type |-> text[last].type, text |-> text[last].text]]

\* obj.key, undefined when the object has no such member
Prop(obj, key) == IF key \in DOMAIN obj THEN obj[key] ELSE JUndefined

\* the JavaScript value of a parsed member, as a string or as a number
StringOf(j) ==
    IF j.type = "string" THEN j.text
    ELSE IF j.type = "null" THEN Null
    ELSE Undefined
NumberOf(j) == IF j.type = "number" THEN parseInt(j.text) ELSE NaN
BooleanOf(j) == j.type = "boolean" /\ j.text = <<"true">>


(***************************************************************************)
(* Modal views.  A view is what the handler hands to Slack; blocks keep    *)
(* their type, block_id, action_id and text.                               *)
(***************************************************************************)
Block(type, block_id, action_id, text) ==
    [type |-> type, block_id |-> block_id, action_id |-> action_id, text |-> text]

View(callback_id, private_metadata, title, submit, blocks) ==
    [callback_id |-> callback_id, private_metadata |-> private_metadata,
     title |-> title, submit |-> submit, blocks |-> blocks]

NoView == View("", <<>>, <<>>, <<>>, <<>>)

\* `${cfg.testsPath}/${testName}`
DirPath(cfg, testName) == cfg.testsPath \o <<"/">> \o testName

\* variant: the test name is left out of the path
VarPathNoTest(cfg, testName, v, ext) ==
    cfg.testsPath \o <<"/", "var-">> \o NumToString(v) \o <<ext>>

\* `${cfg.testsPath}/${testName}/var-${i}` followed by .js or .css
VarPath(cfg, testName, v, ext) ==
    cfg.testsPath \o <<"/">> \o testName \o <<"/", "var-">> \o NumToString(v) \o <<ext>>

\* the modal the slash command opens
PickClientTestView ==
    View("crp_pick_client_test", <<>>, <<"CRP Automation">>, <<"Continue">>,
         << Block("input", <<"client_block">>, "client_select", <<"Choose client">>),
            Block("input", <<"testname_block">>, "test_name", <<"Test name">>) >>)

\* variant: the error modal leaves the failure message out
CheckFailedViewNoMessage(message) ==
    View("noop", <<>>, <<"CRP Automation">>, <<>>,
         << Block("section", <<>>, "", <<"GitHub check failed">>) >>)

\* the error modal of a failed existence check
CheckFailedView(message) ==
    View("noop", <<>>, <<"CRP Automation">>, <<>>,
         << Block("section", <<>>, "", <<"GitHub check failed:">> \o message) >>)

\* variant: "Update Existing" is offered whatever the check found
ChoiceButtonsBoth(exists) ==
    << Block("button", <<"choice_block">>, "choose_create", <<"Create New">>),
       Block("button", <<"choice_block">>, "choose_update", <<"Update Existing">>) >>

\* the buttons of the choice modal
ChoiceButtons(exists) ==
    << Block("button", <<"choice_block">>, "choose_create", <<"Create New">>) >>
        \o (IF exists
            THEN << Block("button", <<"choice_block">>, "choose_update",
                          <<"Update Existing">>) >>
            ELSE << >>)

\* the members of the step state written at step 1
PickMetadata(clientKey, testName, exists) ==
    JSONstringify(<< Member("clientKey", JString(clientKey)),
                     Member("testName", JString(testName)),
                     Member("exists", JBoolean(exists)) >>)

\* the modal pushed after the existence check
ChoiceView(clientKey, testName, exists, dirPath) ==
    View("crp_update_or_create", PickMetadata(clientKey, testName, exists),
         <<"CRP Automation">>, <<>>,
         << Block("section", <<>>, "",
                  IF exists THEN <<"Test found:">> \o dirPath
                  ELSE <<"No existing test at">> \o dirPath) >>
             \o ChoiceButtons(exists))

\* the modal asking for the number of variations
VariationCountView(private_metadata) ==
    View("crp_collect_variation_count", private_metadata,
         <<"Create New Test">>, <<"Continue">>,
         << Block("input", <<"varcount_block">>, "var_count",
                  <<"Number of variations (1-5)">>) >>)

\* variant: the upper clamp is 6
ClampCountTo6(raw) ==
    MathMax(Num(1), MathMin(Num(6), NumOr(parseInt(raw), Num(1))))

\* variant: the upper clamp is missing
ClampCountNoMin(raw) == MathMax(Num(1), NumOr(parseInt(raw), Num(1)))

\* const count = Math.max(1, Math.min(5, parseInt(raw, 10) || 1))
ClampCount(raw) ==
    MathMax(Num(1), MathMin(Num(5), NumOr(parseInt(raw), Num(1))))

\* the blocks pushed by the loop for (let i = 1; i <= count; i++)
SnippetBlocks(count) ==
    [k \in 1..(3 * (IF count.n >= 1 THEN count.n ELSE 0)) |->
        LET i == Num(((k - 1) \div 3) + 1)
        IN  IF k % 3 = 1
            THEN Block("header", <<>>, "", <<"Variation ">> \o NumToString(i))
            ELSE IF k % 3 = 2
            THEN Block("input", <<"js_">> \o NumToString(i), "val",
                       <<"JS snippet ">> \o NumToString(i))
            ELSE Block("input", <<"css_">> \o NumToString(i), "val",
                       <<"CSS snippet ">> \o NumToString(i))]

\* the members of the step state written at the variation-count step
CountMetadata(clientKey, testName, count) ==
    JSONstringify(<< Member("clientKey", clientKey),
                     Member("testName", testName),
                     Member("count", JNumber(count)) >>)

\* the modal with the snippet fields of a new test
SnippetsView(private_metadata, count) ==
    View("crp_create_commit", private_metadata,
         <<"New Test Snippets">>, <<"Create">>, SnippetBlocks(count))

CreatedView(testName, clientKey, count) ==
    View("noop", <<>>, <<"Created">>, <<>>,
         << Block("section", <<>>, "",
                  <<"Created ">> \o testName \o <<" for ">> \o clientKey
                      \o <<" with ">> \o NumToString(count)
                      \o <<" variation(s).">>) >>)

CreateErrorView(message) ==
    View("noop", <<>>, <<"Error">>, <<>>,
         << Block("section", <<>>, "",
                  <<"GitHub error creating files:">> \o message) >>)

\* the modal with the fields of an update
UpdateView(private_metadata, baseDir) ==
    View("crp_update_commit", private_metadata,
         <<"Update Existing Test">>, <<"Update">>,
         << Block("section", <<>>, "",
                  <<"Updating files under ">> \o baseDir \o <<" (default: var-1)">>),
            Block("input", <<"var_id">>, "val", <<"Variation number">>),
            Block("input", <<"u_js">>, "val", <<"New JS snippet">>),
            Block("input", <<"u_css">>, "val", <<"New CSS snippet">>) >>)

UpdatedView(testName, v, clientKey) ==
    View("noop", <<>>, <<"Updated">>, <<>>,
         << Block("section", <<>>, "",
                  <<"Updated ">> \o testName \o <<" variation ">> \o NumToString(v)
                      \o <<" for ">> \o clientKey \o <<".">>) >>)

UpdateErrorView(message) ==
    View("noop", <<>>, <<"Error">>, <<>>,
         << Block("section", <<>>, "",
                  <<"GitHub update failed:">> \o message) >>)


(***************************************************************************)
(* State.                                                                  *)
(***************************************************************************)
VARIABLES
    users,      \* the flows whose user runs the slash command
    origin,     \* the GitHub repository as it was when the app started
    files,      \* the GitHub repository: path -> content of the file there
    stack,      \* per flow, the modal stack Slack shows (the last is on top)
    inv,        \* per flow, the handler invocation in progress and its locals
    submitted,  \* per flow, view.state.values of the payload being handled
    calls,      \* per flow, the remote calls the current invocation has issued
    acks        \* per flow, the acknowledgements the current invocation has sent

vars == <<users, origin, files, stack, inv, submitted, calls, acks>>

\* a handler invocation that is not running; pc names the await it stands at
Idle ==
    [pc |-> "idle", clientKey |-> Undefined, testName |-> Undefined,
     dirPath |-> Undefined, count |-> NaN, ops |-> <<>>, i |-> 0,
     sha |-> Undefined, v |-> NaN, jsPath |-> Undefined, cssPath |-> Undefined,
     js |-> Undefined, css |-> Undefined, jsSha |-> Undefined,
     cssSha |-> Undefined]

NoValues == [b \in {} |-> TextValue("", Undefined)]
NoErrors == [b \in {} |-> <<>>]

\* what a handler passes to ack()
Ack(response_action, errors, view) ==
    [response_action |-> response_action, errors |-> errors, view |-> view]

Top(st) == st[Len(st)]
ReplaceTop(st, view) == [st EXCEPT ![Len(st)] = view]

\* Slack's handling of an acknowledgement: errors keep the modal, update
\* replaces the modal on top, push puts a new modal on top
AfterAck(st, ack) ==
    IF ack.response_action = "update" THEN ReplaceTop(st, ack.view)
    ELSE IF ack.response_action = "push" THEN Append(st, ack.view)
    ELSE st

\* a remote call of the log: the operation, its path, the sha and content it
\* passed, the response it got and its outcome for the caller
Call(op, path, sha, content, res, outcome) ==
    [op |-> op, path |-> path, sha |-> sha, content |-> content, res |-> res,
     thrown |-> outcome.thrown, value |-> outcome.value,
     message |-> outcome.message]

\* variant: the acknowledgement is sent twice
RespondTwice(f, sent, ack) ==
    /\ acks' = [acks EXCEPT ![f] = Append(Append(sent, ack), ack)]
    /\ stack' = [stack EXCEPT ![f] = AfterAck(@, ack)]
    /\ inv' = [inv EXCEPT ![f] = Idle]

\* the handler acknowledges (after the acknowledgements sent so far) and returns
Respond(f, sent, ack) ==
    /\ acks' = [acks EXCEPT ![f] = Append(sent, ack)]
    /\ stack' = [stack EXCEPT ![f] = AfterAck(@, ack)]
    /\ inv' = [inv EXCEPT ![f] = Idle]

\* the handler stops at an await, its acknowledgement still to come
Await(f, locals) ==
    /\ acks' = [acks EXCEPT ![f] = <<>>]
    /\ inv' = [inv EXCEPT ![f] = locals]
    /\ UNCHANGED stack

\* the modal a submission or a button press comes from
Showing(f, callback_id) ==
    /\ inv[f].pc = "idle"
    /\ stack[f] # <<>>
    /\ Top(stack[f]).callback_id = callback_id

\* the repository as the wizard may find it, for the test name "t" of the
\* configured client: empty; a test with its first variation; a test whose
\* var-1.js is a directory; a file where the test directory would be
InitialFiles ==
    LET cfg == CLIENTS[<<"acme">>]
        one == Num(1)
    IN  { [p \in {} |-> <<>>],
          [p \in {VarPath(cfg, <<"t">>, one, ".js"),
                  VarPath(cfg, <<"t">>, one, ".css")} |-> <<"o">>],
          [p \in {VarPath(cfg, <<"t">>, one, ".js") \o <<"/", "k">>} |-> <<"o">>],
          [p \in {DirPath(cfg, <<"t">>)} |-> <<"o">>] }

\* every flow stands before its slash command
NothingStarted ==
    /\ origin = files
    /\ stack = [f \in Flows |-> <<>>]
    /\ inv = [f \in Flows |-> Idle]
    /\ submitted = [f \in Flows |-> NoValues]
    /\ calls = [f \in Flows |-> <<>>]
    /\ acks = [f \in Flows |-> <<>>]

Init ==
    /\ users = {1}
    /\ files \in InitialFiles
    /\ NothingStarted

(***************************************************************************)
(* 1) Slash command -> open the first modal                                *)
(***************************************************************************)
command(f) ==
    /\ f \in users
    /\ inv[f].pc = "idle"
    /\ stack[f] = <<>>
    /\ acks' = [acks EXCEPT ![f] = <<Ack("none", NoErrors, NoView)>>]
    /\ stack' = [stack EXCEPT ![f] = <<PickClientTestView>>]
    /\ calls' = [calls EXCEPT ![f] = <<>>]
    /\ UNCHANGED <<users, origin, files, inv, submitted>>

(***************************************************************************)
(* 2) Submit first modal -> check GitHub, then PUSH next modal             *)
(***************************************************************************)
\* variant: both fields are annotated whichever one is empty
ValidationErrorsBoth(clientKey, testName) ==
    [b \in {<<"client_block">>, <<"testname_block">>} |->
        IF b = <<"client_block">> THEN <<"Please select a client.">>
        ELSE <<"Please enter a test name.">>]

\* the errors object of the inline validation
ValidationErrors(clientKey, testName) ==
    [b \in (IF ~Truthy(clientKey) THEN {<<"client_block">>} ELSE {})
            \cup (IF ~Truthy(testName) THEN {<<"testname_block">>} ELSE {}) |->
        IF b = <<"client_block">> THEN <<"Please select a client.">>
        ELSE <<"Please enter a test name.">>]

\* variant: the unknown client is reported on the name field
UnknownClientErrorsOnName ==
    [b \in {<<"testname_block">>} |-> <<"Unknown client in configuration.">>]

\* ack({ response_action: 'errors', errors: { client_block: ... } })
UnknownClientErrors ==
    [b \in {<<"client_block">>} |-> <<"Unknown client in configuration.">>]

\* the form a user submits: a picked client (or none) and a typed name
PickClientTestValues(selected, name) ==
    (<<"client_block">> :> SelectValue("client_select", selected))
        @@ (<<"testname_block">> :> TextValue("test_name", name))

\* the handler up to its await of githubGetFileSha
crp_pick_client_test(f) ==
    /\ Showing(f, "crp_pick_client_test")
    /\ \E selected \in clientOptions \cup {Undefined},
          name \in StringsUpTo(NameChars, MaxNameLen) :
        LET state == PickClientTestValues(selected, name)
            clientKey == getStateValue(state, <<"client_block">>, "client_select")
            testName ==
                Trim(Or(getStateValue(state, <<"testname_block">>, "test_name"), <<>>))
            cfg == ClientsAt(clientKey)
        IN  /\ submitted' = [submitted EXCEPT ![f] = state]
            /\ calls' = [calls EXCEPT ![f] = <<>>]
            /\ IF ~Truthy(clientKey) \/ ~Truthy(testName)
               THEN Respond(f, <<>>,
                            Ack("errors", ValidationErrors(clientKey, testName), NoView))
               ELSE IF ~cfg.isObject
               THEN Respond(f, <<>>, Ack("errors", UnknownClientErrors, NoView))
               ELSE Await(f, [Idle EXCEPT !.pc = "pick_get",
                                          !.clientKey = clientKey,
                                          !.testName = testName,
                                          !.dirPath = DirPath(cfg, testName)])
    /\ UNCHANGED <<users, origin, files>>

\* variant: a directory does not count as existing
ExistsFlagFilesOnly(sha) == Truthy(sha) /\ sha # <<"DIR">>

\* exists = !!sha
ExistsFlag(sha) == Truthy(sha)

\* githubGetFileSha returns or throws; the handler acknowledges
crp_pick_client_test_checked(f) ==
    /\ inv[f].pc = "pick_get"
    /\ \E res \in GetContentResponses(files, inv[f].dirPath) :
        LET out == githubGetFileSha(res)
            l == inv[f]
        IN  /\ calls' = [calls EXCEPT ![f] =
                            Append(@, Call("get", l.dirPath, Undefined, <<>>, res, out))]
            /\ IF out.thrown
               THEN Respond(f, acks[f],
                            Ack("update", NoErrors, CheckFailedView(out.message)))
               ELSE Respond(f, acks[f],
                            Ack("push", NoErrors,
                                ChoiceView(l.clientKey, l.testName,
                                           ExistsFlag(out.value), l.dirPath)))
    /\ UNCHANGED <<users, origin, files, submitted>>

\* the handler goes on from one await to the next
Continue(f, locals) ==
    /\ inv' = [inv EXCEPT ![f] = locals]
    /\ UNCHANGED <<acks, stack>>

\* the handler throws outside its try block: it returns unacknowledged
Crash(f) ==
    /\ acks' = [acks EXCEPT ![f] = <<>>]
    /\ inv' = [inv EXCEPT ![f] = Idle]
    /\ UNCHANGED stack

HasButton(view, action_id) ==
    \E k \in DOMAIN view.blocks :
        view.blocks[k].type = "button" /\ view.blocks[k].action_id = action_id

(***************************************************************************)
(* 3a) Choose "Create New" -> update current modal to ask # of variations  *)
(***************************************************************************)
choose_create(f) ==
    /\ Showing(f, "crp_update_or_create")
    /\ HasButton(Top(stack[f]), "choose_create")
    /\ acks' = [acks EXCEPT ![f] = <<Ack("none", NoErrors, NoView)>>]
    /\ stack' = [stack EXCEPT ![f] =
                    ReplaceTop(@, VariationCountView(Top(@).private_metadata))]
    /\ submitted' = [submitted EXCEPT ![f] = NoValues]
    /\ calls' = [calls EXCEPT ![f] = <<>>]
    /\ UNCHANGED <<users, origin, files, inv>>

\* Collect variation count (submission) -> UPDATE modal with snippet fields
crp_collect_variation_count(f) ==
    /\ Showing(f, "crp_collect_variation_count")
    /\ \E typed \in StringsUpTo(RawChars, MaxRawLen) :
        LET state == <<"varcount_block">> :> TextValue("var_count", typed)
            meta == JSONparse(Top(stack[f]).private_metadata)
            clientKey == Prop(meta, "clientKey")
            testName == Prop(meta, "testName")
            raw == Or(getStateValue(state, <<"varcount_block">>, "var_count"), <<"1">>)
            count == ClampCount(raw)
        IN  /\ submitted' = [submitted EXCEPT ![f] = state]
            /\ Respond(f, <<>>,
                       Ack("update", NoErrors,
                           SnippetsView(CountMetadata(clientKey, testName, count),
                                        count)))
    /\ calls' = [calls EXCEPT ![f] = <<>>]
    /\ UNCHANGED <<users, origin, files>>

(***************************************************************************)
(* 3b) Submit snippets -> write to GitHub, then UPDATE modal with result   *)
(***************************************************************************)
\* the input blocks of a modal
InputBlockIds(view) ==
    {view.blocks[k].block_id : k \in {j \in DOMAIN view.blocks :
                                            view.blocks[j].type = "input"}}

\* the form a user submits: one text in every JS field, one in every CSS field
SnippetValues(view, js, css) ==
    [b \in InputBlockIds(view) |->
        TextValue("val", IF IsPrefix(<<"js_">>, b) THEN js ELSE css)]

\* variant: the loop pushes the CSS op before the JS op
CreateOpsCssFirst(cfg, testName, count, state) ==
    [k \in 1..(2 * (IF ~count.nan /\ count.n >= 1 THEN count.n ELSE 0)) |->
        LET i == Num((k + 1) \div 2)
        IN  IF k % 2 = 0
            THEN [path |-> VarPath(cfg, testName, i, ".js"),
                  content |->
                      Or(getStateValue(state, <<"js_">> \o NumToString(i), "val"), <<>>)]
            ELSE [path |-> VarPath(cfg, testName, i, ".css"),
                  content |->
                      Or(getStateValue(state, <<"css_">> \o NumToString(i), "val"), <<>>)]]

\* the ops list built by the loop for (let i = 1; i <= count; i++)
CreateOps(cfg, testName, count, state) ==
    [k \in 1..(2 * (IF ~count.nan /\ count.n >= 1 THEN count.n ELSE 0)) |->
        LET i == Num((k + 1) \div 2)
        IN  IF k % 2 = 1
            THEN [path |-> VarPath(cfg, testName, i, ".js"),
                  content |->
                      Or(getStateValue(state, <<"js_">> \o NumToString(i), "val"), <<>>)]
            ELSE [path |-> VarPath(cfg, testName, i, ".css"),
                  content |->
                      Or(getStateValue(state, <<"css_">> \o NumToString(i), "val"), <<>>)]]

\* variant: the fetched sha is never passed on
ShaDropped(sha) == Undefined

\* sha: sha || undefined
ShaOrUndefined(sha) == Or(sha, Undefined)

\* the handler up to its first await of githubGetFileSha
crp_create_commit(f) ==
    /\ Showing(f, "crp_create_commit")
    /\ \E js \in Snippets, css \in Snippets :
        LET view == Top(stack[f])
            state == SnippetValues(view, js, css)
            meta == JSONparse(view.private_metadata)
            clientKey == StringOf(Prop(meta, "clientKey"))
            testName == StringOf(Prop(meta, "testName"))
            count == NumberOf(Prop(meta, "count"))
            cfg == ClientsAt(clientKey)
            ops == CreateOps(cfg, testName, count, state)
        IN  /\ submitted' = [submitted EXCEPT ![f] = state]
            /\ IF ~cfg.isObject /\ ops # <<>>
               THEN Crash(f)
               ELSE IF ops = <<>>
               THEN Respond(f, <<>>,
                            Ack("update", NoErrors,
                                CreatedView(testName, clientKey, count)))
               ELSE Await(f, [Idle EXCEPT !.pc = "create_get",
                                          !.clientKey = clientKey,
                                          !.testName = testName,
                                          !.count = count,
                                          !.ops = ops,
                                          !.i = 1])
    /\ calls' = [calls EXCEPT ![f] = <<>>]
    /\ UNCHANGED <<users, origin, files>>

\* variant: a failed fetch is tried again instead of ending the handler
create_get_retrying(f) ==
    /\ inv[f].pc = "create_get"
    /\ LET l == inv[f]
           op == l.ops[l.i]
       IN  \E res \in GetContentResponses(files, op.path) :
            LET out == githubGetFileSha(res)
            IN  /\ calls' = [calls EXCEPT ![f] =
                                Append(@, Call("get", op.path, Undefined, <<>>, res, out))]
                /\ IF out.thrown
                   THEN Continue(f, l)
                   ELSE Continue(f, [l EXCEPT !.pc = "create_put",
                                              !.sha = out.value])
    /\ UNCHANGED <<users, origin, files, submitted>>

\* const sha = await githubGetFileSha(...) for the op at hand
create_get(f) ==
    /\ inv[f].pc = "create_get"
    /\ LET l == inv[f]
           op == l.ops[l.i]
       IN  \E res \in GetContentResponses(files, op.path) :
            LET out == githubGetFileSha(res)
            IN  /\ calls' = [calls EXCEPT ![f] =
                                Append(@, Call("get", op.path, Undefined, <<>>, res, out))]
                /\ IF out.thrown
                   THEN Respond(f, acks[f],
                                Ack("update", NoErrors, CreateErrorView(out.message)))
                   ELSE Continue(f, [l EXCEPT !.pc = "create_put",
                                              !.sha = out.value])
    /\ UNCHANGED <<users, origin, files, submitted>>

\* variant: a failed write is skipped and the loop goes on
create_put_skipping(f) ==
    /\ inv[f].pc = "create_put"
    /\ LET l == inv[f]
           op == l.ops[l.i]
           sha == ShaOrUndefined(l.sha)
       IN  \E res \in PutResponses(files, op.path, sha) :
            LET out == githubWriteFile(res)
            IN  /\ files' = FilesAfterPut(files, op.path, op.content, res)
                /\ calls' = [calls EXCEPT ![f] =
                                Append(@, Call("put", op.path, sha, op.content, res, out))]
                /\ IF l.i = Len(l.ops)
                   THEN Respond(f, acks[f],
                                Ack("update", NoErrors,
                                    IF out.thrown THEN CreateErrorView(out.message)
                                    ELSE CreatedView(l.testName, l.clientKey, l.count)))
                   ELSE Continue(f, [l EXCEPT !.pc = "create_get",
                                              !.i = l.i + 1,
                                              !.sha = Undefined])
    /\ UNCHANGED <<users, origin, submitted>>

\* await githubWriteFile(...) for the op at hand, then the next op or the ack
create_put(f) ==
    /\ inv[f].pc = "create_put"
    /\ LET l == inv[f]
           op == l.ops[l.i]
           sha == ShaOrUndefined(l.sha)
       IN  \E res \in PutResponses(files, op.path, sha) :
            LET out == githubWriteFile(res)
            IN  /\ files' = FilesAfterPut(files, op.path, op.content, res)
                /\ calls' = [calls EXCEPT ![f] =
                                Append(@, Call("put", op.path, sha, op.content, res, out))]
                /\ IF out.thrown
                   THEN Respond(f, acks[f],
                                Ack("update", NoErrors, CreateErrorView(out.message)))
                   ELSE IF l.i = Len(l.ops)
                   THEN Respond(f, acks[f],
                                Ack("update", NoErrors,
                                    CreatedView(l.testName, l.clientKey, l.count)))
                   ELSE Continue(f, [l EXCEPT !.pc = "create_get",
                                              !.i = l.i + 1,
                                              !.sha = Undefined])
    /\ UNCHANGED <<users, origin, submitted>>

(***************************************************************************)
(* 4) Choose "Update Existing" -> update current modal to capture inputs   *)
(***************************************************************************)
choose_update(f) ==
    /\ Showing(f, "crp_update_or_create")
    /\ HasButton(Top(stack[f]), "choose_update")
    /\ LET meta == JSONparse(Top(stack[f]).private_metadata)
           clientKey == StringOf(Prop(meta, "clientKey"))
           testName == StringOf(Prop(meta, "testName"))
           cfg == ClientsAt(clientKey)
           baseDir == DirPath(cfg, testName)
       IN  IF ~cfg.isObject
           THEN UNCHANGED stack
           ELSE stack' = [stack EXCEPT ![f] =
                            ReplaceTop(@, UpdateView(Top(@).private_metadata, baseDir))]
    /\ acks' = [acks EXCEPT ![f] = <<Ack("none", NoErrors, NoView)>>]
    /\ submitted' = [submitted EXCEPT ![f] = NoValues]
    /\ calls' = [calls EXCEPT ![f] = <<>>]
    /\ UNCHANGED <<users, origin, files, inv>>

\* const v = parseInt(getStateValue(view.state, 'var_id', 'val') || '1', 10)
VariationNumber(value) == parseInt(Or(value, <<"1">>))

\* the form a user submits: a variation number and the two snippets
UpdateValues(typed, js, css) ==
    (<<"var_id">> :> TextValue("val", typed))
        @@ (<<"u_js">> :> TextValue("val", js))
        @@ (<<"u_css">> :> TextValue("val", css))

\* Submit update: the handler up to its first await of githubGetFileSha
crp_update_commit(f) ==
    /\ Showing(f, "crp_update_commit")
    /\ \E typed \in StringsUpTo(RawChars, MaxRawLen),
          js \in Snippets, css \in Snippets :
        LET state == UpdateValues(typed, js, css)
            meta == JSONparse(Top(stack[f]).private_metadata)
            clientKey == StringOf(Prop(meta, "clientKey"))
            testName == StringOf(Prop(meta, "testName"))
            cfg == ClientsAt(clientKey)
            v == VariationNumber(getStateValue(state, <<"var_id">>, "val"))
        IN  /\ submitted' = [submitted EXCEPT ![f] = state]
            /\ IF ~cfg.isObject
               THEN Crash(f)
               ELSE Await(f, [Idle EXCEPT
                        !.pc = "update_get_js",
                        !.clientKey = clientKey,
                        !.testName = testName,
                        !.v = v,
                        !.js = Or(getStateValue(state, <<"u_js">>, "val"), <<>>),
                        !.css = Or(getStateValue(state, <<"u_css">>, "val"), <<>>),
                        !.jsPath = VarPath(cfg, testName, v, ".js"),
                        !.cssPath = VarPath(cfg, testName, v, ".css")])
    /\ calls' = [calls EXCEPT ![f] = <<>>]
    /\ UNCHANGED <<users, origin, files>>

\* variant: the JS file is written before the sha of the CSS file is fetched
update_get_js_then_write(f) ==
    /\ inv[f].pc = "update_get_js"
    /\ LET l == inv[f]
       IN  \E res \in GetContentResponses(files, l.jsPath) :
            LET out == githubGetFileSha(res)
            IN  /\ calls' = [calls EXCEPT ![f] =
                                Append(@, Call("get", l.jsPath, Undefined, <<>>, res, out))]
                /\ IF out.thrown
                   THEN Respond(f, acks[f],
                                Ack("update", NoErrors, UpdateErrorView(out.message)))
                   ELSE Continue(f, [l EXCEPT !.pc = "update_put_js",
                                              !.jsSha = out.value])
    /\ UNCHANGED <<users, origin, files, submitted>>

\* const jsSha = await githubGetFileSha(... jsPath ...)
update_get_js(f) ==
    /\ inv[f].pc = "update_get_js"
    /\ LET l == inv[f]
       IN  \E res \in GetContentResponses(files, l.jsPath) :
            LET out == githubGetFileSha(res)
            IN  /\ calls' = [calls EXCEPT ![f] =
                                Append(@, Call("get", l.jsPath, Undefined, <<>>, res, out))]
                /\ IF out.thrown
                   THEN Respond(f, acks[f],
                                Ack("update", NoErrors, UpdateErrorView(out.message)))
                   ELSE Continue(f, [l EXCEPT !.pc = "update_get_css",
                                              !.jsSha = out.value])
    /\ UNCHANGED <<users, origin, files, submitted>>

\* const cssSha = await githubGetFileSha(... cssPath ...)
update_get_css(f) ==
    /\ inv[f].pc = "update_get_css"
    /\ LET l == inv[f]
       IN  \E res \in GetContentResponses(files, l.cssPath) :
            LET out == githubGetFileSha(res)
            IN  /\ calls' = [calls EXCEPT ![f] =
                                Append(@, Call("get", l.cssPath, Undefined, <<>>, res, out))]
                /\ IF out.thrown
                   THEN Respond(f, acks[f],
                                Ack("update", NoErrors, UpdateErrorView(out.message)))
                   ELSE Continue(f, [l EXCEPT !.pc = "update_put_js",
                                              !.cssSha = out.value])
    /\ UNCHANGED <<users, origin, files, submitted>>

\* await githubWriteFile(... jsPath ... sha: jsSha || undefined)
update_put_js(f) ==
    /\ inv[f].pc = "update_put_js"
    /\ LET l == inv[f]
           sha == ShaOrUndefined(l.jsSha)
       IN  \E res \in PutResponses(files, l.jsPath, sha) :
            LET out == githubWriteFile(res)
            IN  /\ files' = FilesAfterPut(files, l.jsPath, l.js, res)
                /\ calls' = [calls EXCEPT ![f] =
                                Append(@, Call("put", l.jsPath, sha, l.js, res, out))]
                /\ IF out.thrown
                   THEN Respond(f, acks[f],
                                Ack("update", NoErrors, UpdateErrorView(out.message)))
                   ELSE Continue(f, [l EXCEPT !.pc = "update_put_css"])
    /\ UNCHANGED <<users, origin, submitted>>

\* variant: the outcome of the CSS write is not looked at
update_put_css_unchecked(f) ==
    /\ inv[f].pc = "update_put_css"
    /\ LET l == inv[f]
           sha == ShaOrUndefined(l.cssSha)
       IN  \E res \in PutResponses(files, l.cssPath, sha) :
            LET out == githubWriteFile(res)
            IN  /\ files' = FilesAfterPut(files, l.cssPath, l.css, res)
                /\ calls' = [calls EXCEPT ![f] =
                                Append(@, Call("put", l.cssPath, sha, l.css, res, out))]
                /\ Respond(f, acks[f],
                           Ack("update", NoErrors,
                               UpdatedView(l.testName, l.v, l.clientKey)))
    /\ UNCHANGED <<users, origin, submitted>>

\* await githubWriteFile(... cssPath ... sha: cssSha || undefined), then the ack
update_put_css(f) ==
    /\ inv[f].pc = "update_put_css"
    /\ LET l == inv[f]
           sha == ShaOrUndefined(l.cssSha)
       IN  \E res \in PutResponses(files, l.cssPath, sha) :
            LET out == githubWriteFile(res)
            IN  /\ files' = FilesAfterPut(files, l.cssPath, l.css, res)
                /\ calls' = [calls EXCEPT ![f] =
                                Append(@, Call("put", l.cssPath, sha, l.css, res, out))]
                /\ IF out.thrown
                   THEN Respond(f, acks[f],
                                Ack("update", NoErrors, UpdateErrorView(out.message)))
                   ELSE Respond(f, acks[f],
                                Ack("update", NoErrors,
                                    UpdatedView(l.testName, l.v, l.clientKey)))
    /\ UNCHANGED <<users, origin, submitted>>

\* one step of flow f
FlowStep(f) ==
    \/ command(f)
    \/ crp_pick_client_test(f)
    \/ crp_pick_client_test_checked(f)
    \/ choose_create(f)
    \/ crp_collect_variation_count(f)
    \/ crp_create_commit(f)
    \/ create_get(f)
    \/ create_put(f)
    \/ choose_update(f)
    \/ crp_update_commit(f)
    \/ update_get_js(f)
    \/ update_get_css(f)
    \/ update_put_js(f)
    \/ update_put_css(f)

Next == \E f \in Flows : FlowStep(f)

Spec == Init /\ [][Next]_vars

(***************************************************************************)
(* Every remote call of a handler ends: octokit resolves or rejects the    *)
(* awaited promise, and the handler then runs on to its next await or to   *)
(* its return.                                                             *)
(***************************************************************************)
\* an awaited remote call of flow f ends and the handler goes on
CallEnds(f) ==
    \/ crp_pick_client_test_checked(f)
    \/ create_get(f)
    \/ create_put(f)
    \/ update_get_js(f)
    \/ update_get_css(f)
    \/ update_put_js(f)
    \/ update_put_css(f)

FairSpec == Spec /\ \A f \in Flows : WF_vars(CallEnds(f))

(***************************************************************************)
(* Two users at once.  Each webhook delivery starts its own handler        *)
(* invocation, and the invocations interleave at their awaits.  The two    *)
(* users pick the configured client, type "1" into the numeric fields and  *)
(* the same text into the JS and the CSS field; a remote failure has the   *)
(* message E500.                                                           *)
(***************************************************************************)
\* the repository as two users may find it: empty, or with the first
\* variation of the tests "t" and "tt"
ConcurrentInitialFiles ==
    LET cfg == CLIENTS[<<"acme">>]
        one == Num(1)
    IN  { [p \in {} |-> <<>>],
          [p \in {VarPath(cfg, <<"t">>, one, ".js"),
                  VarPath(cfg, <<"t">>, one, ".css"),
                  VarPath(cfg, <<"t", "t">>, one, ".js"),
                  VarPath(cfg, <<"t", "t">>, one, ".css")} |-> <<"o">>] }

InitConcurrent ==
    /\ users = Flows
    /\ files \in ConcurrentInitialFiles
    /\ NothingStarted

\* what the user of flow f has submitted, and what GitHub has answered
TypedWithin(f, names) ==
    /\ \A b \in DOMAIN submitted[f] :
        /\ b = <<"client_block">> => submitted[f][b].selected = <<"acme">>
        /\ b = <<"testname_block">> => submitted[f][b].value \in names
        /\ b \in {<<"varcount_block">>, <<"var_id">>}
               => submitted[f][b].value = <<"1">>
    /\ \A b, c \in DOMAIN submitted[f] \ {<<"var_id">>} :
        (submitted[f][b].action_id = "val" /\ submitted[f][c].action_id = "val")
            => submitted[f][b].value = submitted[f][c].value
    /\ \A k \in DOMAIN calls[f] : calls[f][k].res.message # <<"E403">>


\* both users work on the test "t"
SameTest == \A f \in Flows : TypedWithin(f, {<<"t">>})

\* a step of flow f after which the typed texts are as in SameTest
FlowStepSameTest(f) ==
    \/ command(f) /\ SameTest'
    \/ crp_pick_client_test(f) /\ SameTest'
    \/ crp_pick_client_test_checked(f) /\ SameTest'
    \/ choose_create(f) /\ SameTest'
    \/ crp_collect_variation_count(f) /\ SameTest'
    \/ crp_create_commit(f) /\ SameTest'
    \/ create_get(f) /\ SameTest'
    \/ create_put(f) /\ SameTest'
    \/ choose_update(f) /\ SameTest'
    \/ crp_update_commit(f) /\ SameTest'
    \/ update_get_js(f) /\ SameTest'
    \/ update_get_css(f) /\ SameTest'
    \/ update_put_js(f) /\ SameTest'
    \/ update_put_css(f) /\ SameTest'

NextSameTest == \E f \in Flows : FlowStepSameTest(f)

SpecSameTest == InitConcurrent /\ [][NextSameTest]_vars

\* the user of flow 1 works on the test "t", the user of flow 2 on "tt"
DisjointTests ==
    /\ TypedWithin(1, {<<"t">>})
    /\ TypedWithin(2, {<<"t", "t">>})

\* a step of flow f after which the typed texts are as in DisjointTests
FlowStepDisjointTests(f) ==
    \/ command(f) /\ DisjointTests'
    \/ crp_pick_client_test(f) /\ DisjointTests'
    \/ crp_pick_client_test_checked(f) /\ DisjointTests'
    \/ choose_create(f) /\ DisjointTests'
    \/ crp_collect_variation_count(f) /\ DisjointTests'
    \/ crp_create_commit(f) /\ DisjointTests'
    \/ create_get(f) /\ DisjointTests'
    \/ create_put(f) /\ DisjointTests'
    \/ choose_update(f) /\ DisjointTests'
    \/ crp_update_commit(f) /\ DisjointTests'
    \/ update_get_js(f) /\ DisjointTests'
    \/ update_get_css(f) /\ DisjointTests'
    \/ update_put_js(f) /\ DisjointTests'
    \/ update_put_css(f) /\ DisjointTests'

NextDisjointTests == \E f \in Flows : FlowStepDisjointTests(f)

SpecDisjointTests == InitConcurrent /\ [][NextDisjointTests]_vars


(***************************************************************************)
(* Properties.                                                             *)
(***************************************************************************)
Last(s) == s[Len(s)]
IsSuffix(p, s) == Len(p) <= Len(s) /\ SubSeq(s, Len(s) - Len(p) + 1, Len(s)) = p
Puts(log) == SelectSeq(log, LAMBDA c : c.op = "put")
Gets(log) == SelectSeq(log, LAMBDA c : c.op = "get")
PathsOf(log) == [k \in DOMAIN log |-> log[k].path]
CommitPcs ==
    {"create_get", "create_put", "update_get_js", "update_get_css",
     "update_put_js", "update_put_css"}

\* the step state a modal carries
StepState(view) == JSONparse(view.private_metadata)

\* C1: every write of the create-commit and update-commit handlers follows a
\* fetch of the marker of its path in the same invocation; it passes no sha
\* when the fetched marker was null, and exactly the fetched marker otherwise.
C1_WriteUsesFetchedMarker ==
    \A f \in Flows : \A k \in DOMAIN calls[f] :
        LET put == calls[f][k]
            fetched == {j \in 1..(k - 1) : /\ calls[f][j].op = "get"
                                           /\ calls[f][j].path = put.path}
        IN  put.op = "put" =>
                /\ fetched # {}
                /\ \A j \in fetched :
                    LET marker == calls[f][j].value
                    IN  /\ ~calls[f][j].thrown
                        /\ marker = Null => put.sha = Undefined
                        /\ marker # Null => put.sha = marker

\* C1 witness: one invocation has written a file that existed (passing its
\* sha) and a file that did not (passing none)
C1_Witness ==
    \E f \in Flows : \E j, k \in DOMAIN calls[f] :
        /\ calls[f][j].op = "put" /\ calls[f][j].sha = BlobSha(<<"o">>)
        /\ calls[f][k].op = "put" /\ calls[f][k].sha = Undefined
        /\ ~calls[f][j].thrown /\ ~calls[f][k].thrown

\* <baseDir>/var-1.js, var-1.css, ..., var-N.js, var-N.css
ExpectedCreatePaths(clientKey, testName, n) ==
    [k \in 1..(2 * n) |->
        CLIENTS[clientKey].testsPath \o <<"/">> \o testName
            \o <<"/", "var-">> \o Decimal((k + 1) \div 2)
            \o (IF k % 2 = 1 THEN <<".js">> ELSE <<".css">>)]

\* the create-commit handler of flow f returns in this step
CreateCommitReturns(f) ==
    inv[f].pc \in {"create_get", "create_put"} /\ inv'[f].pc = "idle"

\* C2 as stated: every create-commit submission with N variations issues
\* exactly the 2N writes var-1.js, var-1.css, ..., var-N.js, var-N.css.
C2_Original ==
    [][\A f \in Flows :
        CreateCommitReturns(f) =>
            PathsOf(Puts(calls'[f])) =
                ExpectedCreatePaths(inv[f].clientKey, inv[f].testName, inv[f].count.n)]_vars

\* C2 amended: the writes a create-commit submission with N variations issues
\* are a prefix of var-1.js, var-1.css, ..., var-N.js, var-N.css in that
\* order, and all 2N of them when no remote call of the submission fails.
C2_WritesInOrder ==
    [][\A f \in Flows :
        CreateCommitReturns(f) =>
            LET written == PathsOf(Puts(calls'[f]))
                expected == ExpectedCreatePaths(inv[f].clientKey, inv[f].testName,
                                                inv[f].count.n)
            IN  /\ IsPrefix(written, expected)
                /\ (\A k \in DOMAIN calls'[f] : ~calls'[f][k].thrown)
                       => written = expected]_vars

\* C2 witness: a submission with five variations has ended in the success
\* modal after ten writes
C2_Witness ==
    \E f \in Flows :
        /\ inv[f].pc = "idle"
        /\ stack[f] # <<>> /\ Top(stack[f]).title = <<"Created">>
        /\ Len(Puts(calls[f])) = 10

\* the count the variation-count step is to use for a typed text
ClampedTo1To5(typed) ==
    LET p == parseInt(typed)
    IN  IF p.nan THEN 1 ELSE IF p.n > 5 THEN 5 ELSE IF p.n < 1 THEN 1 ELSE p.n

\* the snippet modal of flow f is showing, its count submission the latest
AfterCountStep(f) ==
    /\ stack[f] # <<>>
    /\ Top(stack[f]).callback_id = "crp_create_commit"
    /\ <<"varcount_block">> \in DOMAIN submitted[f]

\* C3: whatever is typed at the variation-count step, the count is clamped to
\* 1..5 (above 5 gives 5, below 1 or unparsable gives 1); the snippet modal
\* holds exactly count groups of a header, a JS field and a CSS field,
\* numbered 1..count, and its step state stores the same count.
C3_CountClamped ==
    \A f \in Flows :
        AfterCountStep(f) =>
            LET view == Top(stack[f])
                n == ClampedTo1To5(submitted[f][<<"varcount_block">>].value)
                stored == StepState(view)
            IN  /\ n \in 1..5
                /\ "count" \in DOMAIN stored
                /\ stored["count"] = [type |-> "number", text |-> Decimal(n)]
                /\ Len(view.blocks) = 3 * n
                /\ \A i \in 1..n :
                    /\ view.blocks[3 * i - 2].type = "header"
                    /\ view.blocks[3 * i - 1].type = "input"
                    /\ view.blocks[3 * i - 1].block_id = <<"js_">> \o Decimal(i)
                    /\ view.blocks[3 * i].type = "input"
                    /\ view.blocks[3 * i].block_id = <<"css_">> \o Decimal(i)

\* C3 witness: a count above 5 was typed and five groups are shown
C3_Witness ==
    \E f \in Flows :
        /\ AfterCountStep(f)
        /\ submitted[f][<<"varcount_block">>].value = <<"6">>
        /\ Len(Top(stack[f]).blocks) = 15

\* the choice modal of flow f is showing, pushed by the existence check
AfterExistenceCheck(f) ==
    /\ stack[f] # <<>>
    /\ Top(stack[f]).callback_id = "crp_update_or_create"

\* C4: after a successful existence check the existence flag is true exactly
\* when the fetched marker of the test directory is non-null, and the choice
\* modal pushed on top offers "Create New" always and "Update Existing"
\* exactly when the flag is true.
C4_ExistenceFlag ==
    \A f \in Flows :
        AfterExistenceCheck(f) =>
            LET view == Top(stack[f])
                check == calls[f][1]
                flag == StepState(view)["exists"]
            IN  /\ Len(calls[f]) = 1
                /\ check.op = "get" /\ ~check.thrown
                /\ flag.type = "boolean"
                /\ (flag.text = <<"true">>) <=> (check.value # Null)
                /\ Len(stack[f]) = 2
                /\ HasButton(view, "choose_create")
                /\ HasButton(view, "choose_update") <=> (flag.text = <<"true">>)

\* C4 witness: the test directory is a directory and both buttons are offered
C4_Witness ==
    \E f \in Flows :
        /\ AfterExistenceCheck(f)
        /\ calls[f][1].value = <<"DIR">>
        /\ HasButton(Top(stack[f]), "choose_update")


\* a modal that ends the flow with an error: nothing to submit or to press,
\* and a text that carries the message
TerminalError(view, message) ==
    /\ view.callback_id = "noop"
    /\ view.submit = << >>
    /\ \A k \in DOMAIN view.blocks : view.blocks[k].type = "section"
    /\ \E k \in DOMAIN view.blocks : IsSuffix(message, view.blocks[k].text)

\* the existence check of flow f has failed: its error modal replaced the
\* first modal, and nothing was pushed
CheckFailed(f) ==
    /\ inv[f].pc = "idle"
    /\ Len(stack[f]) = 1
    /\ Top(stack[f]).callback_id = "noop"

\* C5: when the query of the existence check fails (otherwise than by
\* not-found), the handler replaces the modal by a terminal error modal that
\* carries the failure message, pushes no choice modal, and the flow never
\* moves again: no count, no snippets, no write.
C5_CheckFailureIsTerminal ==
    [][\A f \in Flows :
        /\ (inv[f].pc = "pick_get" /\ inv'[f].pc = "idle" /\ Last(calls'[f]).thrown)
               => /\ Len(stack'[f]) = 1
                  /\ TerminalError(Top(stack'[f]), Last(calls'[f]).message)
                  /\ Last(calls'[f]).message = Last(calls'[f]).res.message
        /\ CheckFailed(f)
               => /\ stack'[f] = stack[f]
                  /\ inv'[f] = inv[f]
                  /\ calls'[f] = calls[f]
                  /\ submitted'[f] = submitted[f]]_vars

\* C5 witness: a failed existence check has left its error modal
C5_Witness ==
    \E f \in Flows :
        /\ CheckFailed(f)
        /\ Len(calls[f]) = 1 /\ calls[f][1].thrown
        /\ calls[f][1].message = <<"E403">>

\* the fields of the submitted first modal that are empty
EmptyFields(f) ==
    (IF ~Truthy(submitted[f][<<"client_block">>].selected)
     THEN {<<"client_block">>} ELSE {})
        \cup (IF Trim(submitted[f][<<"testname_block">>].value) = << >>
              THEN {<<"testname_block">>} ELSE {})

\* C6: a submission of the first modal with an empty or blank test name, or
\* with no client selected, makes no transition and issues no remote call,
\* and the error annotations returned are exactly those of the empty fields.
C6_EmptyFieldAnnotations ==
    \A f \in Flows :
        (<<"client_block">> \in DOMAIN submitted[f] /\ EmptyFields(f) # {}) =>
            /\ inv[f].pc = "idle"
            /\ Len(stack[f]) = 1
            /\ Top(stack[f]).callback_id = "crp_pick_client_test"
            /\ calls[f] = << >>
            /\ Len(acks[f]) = 1
            /\ acks[f][1].response_action = "errors"
            /\ DOMAIN acks[f][1].errors = EmptyFields(f)

\* C6 witness: a client was selected, the name left blank, and only the name
\* field is annotated
C6_Witness ==
    \E f \in Flows :
        /\ <<"client_block">> \in DOMAIN submitted[f]
        /\ submitted[f][<<"client_block">>].selected = <<"acme">>
        /\ submitted[f][<<"testname_block">>].value = <<" ">>
        /\ Len(acks[f]) = 1
        /\ DOMAIN acks[f][1].errors = {<<"testname_block">>}

\* C7 as stated: the variation index of an update is the parsed integer of
\* the index field, and 1 whenever the field is unparsable.
C7_Original ==
    \A f \in Flows :
        inv[f].pc \in {"update_get_js", "update_get_css",
                       "update_put_js", "update_put_css"} =>
            LET p == parseInt(submitted[f][<<"var_id">>].value)
                index == IF p.nan THEN Num(1) ELSE p
                base == CLIENTS[inv[f].clientKey].testsPath \o <<"/">>
                            \o inv[f].testName \o <<"/", "var-">>
            IN  /\ inv[f].v = index
                /\ inv[f].jsPath = base \o NumToString(index) \o <<".js">>
                /\ inv[f].cssPath = base \o NumToString(index) \o <<".css">>

\* C8 as stated: at every transition from one modal to the next, the step
\* state of the next modal holds every field of the previous one unchanged.
C8_Original ==
    [][\A f \in Flows :
        (stack[f] # << >> /\ stack'[f] # << >>
            /\ Top(stack[f]).private_metadata # << >>
            /\ Top(stack'[f]).private_metadata # << >>) =>
            \A key \in DOMAIN StepState(Top(stack[f])) :
                /\ key \in DOMAIN StepState(Top(stack'[f]))
                /\ StepState(Top(stack'[f]))[key] = StepState(Top(stack[f]))[key]]_vars

\* C9: githubGetFileSha returns null when GitHub reports not-found, the
\* directory sentinel for a directory, the file's sha for a file, and throws
\* every other failure with its message.
C9_GetFileShaOutcomes ==
    \A f \in Flows : \A k \in DOMAIN calls[f] :
        LET c == calls[f][k]
        IN  c.op = "get" =>
                /\ c.res.status = 404 => (~c.thrown /\ c.value = Null)
                /\ (c.res.status = 200 /\ c.res.isArray)
                       => (~c.thrown /\ c.value = <<"DIR">>)
                /\ (c.res.status = 200 /\ ~c.res.isArray)
                       => (~c.thrown /\ c.value = c.res.sha /\ c.value # Null)
                /\ c.res.status \notin {200, 404}
                       => (c.thrown /\ c.message = c.res.message)

\* C9 witness: one invocation got the sentinel for a directory and null for
\* a path that was not found
C9_Witness ==
    \E f \in Flows : \E j, k \in DOMAIN calls[f] :
        /\ calls[f][j].op = "get" /\ calls[f][j].res.isArray
        /\ calls[f][j].value = <<"DIR">>
        /\ calls[f][k].op = "get" /\ calls[f][k].res.status = 404
        /\ calls[f][k].value = Null /\ ~calls[f][k].thrown

\* C10: within one handler invocation no remote operation is issued twice
\* for a path; a failed remote call is the invocation's last, and it leaves
\* the flow in a terminal error modal carrying the message, from which the
\* flow takes no further step.
C10_NoRetry ==
    \A f \in Flows :
        /\ \A j, k \in DOMAIN calls[f] :
            (j < k) => ~(calls[f][j].op = calls[f][k].op
                            /\ calls[f][j].path = calls[f][k].path)
        /\ \A k \in DOMAIN calls[f] :
            calls[f][k].thrown =>
                /\ k = Len(calls[f])
                /\ inv[f].pc = "idle"
                /\ TerminalError(Top(stack[f]), calls[f][k].message)
                /\ ~ENABLED FlowStep(f)

\* C10 witness: a write failed after earlier files were written, and the
\* flow stands in its error modal
C10_Witness ==
    \E f \in Flows :
        /\ Len(calls[f]) >= 4
        /\ Last(calls[f]).op = "put" /\ Last(calls[f]).thrown
        /\ inv[f].pc = "idle"


\* flow f issues a write in this step
IssuesWrite(f) ==
    /\ Len(calls'[f]) = Len(calls[f]) + 1
    /\ Last(calls'[f]).op = "put"

\* C11 as stated: under any interleaving of commit handlers on the same
\* paths, a write to a path that is a file when the write is issued passes
\* the file's current blob sha, and a write to a path that does not exist
\* then passes no sha.
C11_Original ==
    [][\A f \in Flows :
        IssuesWrite(f) =>
            LET put == Last(calls'[f])
            IN  /\ IsFile(files, put.path) => put.sha = BlobSha(files[put.path])
                /\ (~IsFile(files, put.path) /\ ~IsDirectory(files, put.path))
                       => put.sha = Undefined]_vars

\* the repository after the successful writes of a log
RECURSIVE ApplyPuts(_, _)
ApplyPuts(fs, log) ==
    IF log = << >> THEN fs
    ELSE ApplyPuts(IF Head(log).op = "put"
                   THEN FilesAfterPut(fs, Head(log).path, Head(log).content,
                                      Head(log).res)
                   ELSE fs,
                   Tail(log))

\* the responses the call c can end with on the repository fs
ResponsesOn(fs, c) ==
    IF c.op = "get" THEN GetContentResponses(fs, c.path)
    ELSE PutResponses(fs, c.path, c.sha)

\* the k-th remote call of flow f got a response it can also get when flow f
\* runs alone on the repository the app started with
AsWhenAlone(f, k) ==
    calls[f][k].res \in
        ResponsesOn(ApplyPuts(origin, SubSeq(calls[f], 1, k - 1)), calls[f][k])

\* C12: two flows on disjoint paths do not affect each other: under every
\* interleaving each remote call of a flow gets a response it can get when
\* the flow runs alone, so its dialogs are those of a run alone, and the
\* repository holds exactly the writes of the one flow and of the other, in
\* either order.
C12_DisjointFlowsIndependent ==
    /\ \A f \in Flows : \A k \in DOMAIN calls[f] : AsWhenAlone(f, k)
    /\ files = ApplyPuts(ApplyPuts(origin, calls[1]), calls[2])
    /\ files = ApplyPuts(ApplyPuts(origin, calls[2]), calls[1])

\* both commit handlers are between their awaits, each with a write done
C12_Witness ==
    \A f \in Flows :
        /\ inv[f].pc \in CommitPcs
        /\ \E k \in DOMAIN calls[f] :
               calls[f][k].op = "put" /\ Succeeded(calls[f][k].res)

\* the paths of the writes of a log that succeeded
Written(log) ==
    PathsOf(SelectSeq(log, LAMBDA c : c.op = "put" /\ ~c.thrown))

\* the path p is in the repository fs as it was when the app started
Untouched(fs, p) ==
    /\ IsFile(fs, p) <=> IsFile(origin, p)
    /\ IsFile(fs, p) => fs[p] = origin[p]

\* C13: the create-commit handler calls get(p1), put(p1), get(p2), put(p2),
\* ... one after the other over its ordered paths; only its last call can
\* fail, and when the call that fails concerns the k-th path, the first k-1
\* paths are written with their snippets, the k-th and later paths are not,
\* the handler returns, and a terminal error modal shows the failure message.
C13_CreateStopsAtFirstFailure ==
    [][\A f \in Flows :
        inv[f].pc \in {"create_get", "create_put"} =>
            LET log == calls'[f]
                ops == inv[f].ops
                paths == ExpectedCreatePaths(inv[f].clientKey, inv[f].testName,
                                             inv[f].count.n)
                k == (Len(log) + 1) \div 2
            IN  /\ Len(log) = Len(calls[f]) + 1
                /\ Len(log) <= 2 * Len(paths)
                /\ \A j \in DOMAIN log :
                    /\ log[j].op = (IF j % 2 = 1 THEN "get" ELSE "put")
                    /\ log[j].path = paths[(j + 1) \div 2]
                    /\ j < Len(log) => ~log[j].thrown
                /\ Last(log).thrown =>
                    /\ Written(log) = SubSeq(paths, 1, k - 1)
                    /\ \A j \in 1..(k - 1) : files'[paths[j]] = ops[j].content
                    /\ \A j \in k..Len(paths) : Untouched(files', paths[j])
                    /\ inv'[f].pc = "idle"
                    /\ TerminalError(Top(stack'[f]), Last(log).message)
                    /\ Top(stack'[f]).title = <<"Error">>
                    /\ Len(stack'[f]) = Len(stack[f])]_vars

\* a create-commit handler has stopped at the fetch for its third path
C13_Witness ==
    \E f \in Flows :
        /\ inv[f].pc = "idle"
        /\ Len(calls[f]) = 5
        /\ Last(calls[f]).op = "get" /\ Last(calls[f]).thrown
        /\ calls[f][2].op = "put" /\ calls[f][4].op = "put"
        /\ Top(stack[f]).title = <<"Error">>

UpdatePcs == {"update_get_js", "update_get_css", "update_put_js", "update_put_css"}

\* the remote calls of an update-commit submission, in order
ExpectedUpdateCalls(clientKey, testName, v) ==
    LET js == VarPath(CLIENTS[clientKey], testName, v, ".js")
        css == VarPath(CLIENTS[clientKey], testName, v, ".css")
    IN  << [op |-> "get", path |-> js], [op |-> "get", path |-> css],
           [op |-> "put", path |-> js], [op |-> "put", path |-> css] >>

\* C14: the update-commit handler calls get(JS), get(CSS), write(JS),
\* write(CSS) in this order, each write with the marker its fetch returned;
\* only its last call can fail; a failed fetch or a failed JS write leaves
\* both files as they were, a failed CSS write leaves the JS file written and
\* the CSS file as it was, and each failure ends in a terminal error modal.
C14_UpdateOrderAndFailures ==
    [][\A f \in Flows :
        inv[f].pc \in UpdatePcs =>
            LET log == calls'[f]
                expected == ExpectedUpdateCalls(inv[f].clientKey, inv[f].testName,
                                                inv[f].v)
                js == expected[3].path
                css == expected[4].path
            IN  /\ Len(log) = Len(calls[f]) + 1
                /\ Len(log) <= 4
                /\ \A j \in DOMAIN log :
                    /\ log[j].op = expected[j].op
                    /\ log[j].path = expected[j].path
                    /\ j < Len(log) => ~log[j].thrown
                    /\ j > 2 => log[j].sha = (IF log[j - 2].value = Null
                                              THEN Undefined
                                              ELSE log[j - 2].value)
                /\ Last(log).thrown =>
                    /\ inv'[f].pc = "idle"
                    /\ TerminalError(Top(stack'[f]), Last(log).message)
                    /\ Top(stack'[f]).title = <<"Error">>
                    /\ Untouched(files', css)
                    /\ IF Len(log) = 4 THEN files'[js] = inv[f].js
                       ELSE Untouched(files', js)]_vars

\* an update-commit handler has written the JS file and failed on the CSS file
C14_Witness ==
    \E f \in Flows :
        /\ inv[f].pc = "idle"
        /\ Len(calls[f]) = 4
        /\ calls[f][2].op = "get" /\ calls[f][3].op = "put"
        /\ Last(calls[f]).thrown
        /\ files[calls[f][3].path] = calls[f][3].content
        /\ Top(stack[f]).title = <<"Error">>

\* the text has a character that is not white space
NonBlank(s) == \E k \in DOMAIN s : ~IsSpace(s[k])

\* a client identifier and a test name as a successful step 1 leaves them
ValidClientAndName(clientKey, testName) ==
    /\ testName \notin {Null, Undefined}
    /\ NonBlank(testName)
    /\ clientKey \notin {Null, Undefined, << >>}
    /\ clientKey \in DOMAIN CLIENTS
    /\ CLIENTS[clientKey].isObject

\* C15: in every state after a successful step 1 (choice, variation count,
\* create snippets, update snippets, and the commit handlers up to their
\* terminal modal) the step state holds a test name that is not blank and a
\* non-empty client identifier that is a key of CLIENTS, and its count, once
\* it is there, is an integer from 1 to 5.
C15_StepStateValid ==
    \A f \in Flows :
        /\ \A d \in DOMAIN stack[f] :
            stack[f][d].private_metadata # << >> =>
                LET st == StepState(stack[f][d])
                IN  /\ ValidClientAndName(StringOf(Prop(st, "clientKey")),
                                          StringOf(Prop(st, "testName")))
                    /\ "count" \in DOMAIN st =>
                        /\ ~NumberOf(st["count"]).nan
                        /\ NumberOf(st["count"]).n \in 1..5
        /\ inv[f].pc # "idle" =>
                ValidClientAndName(inv[f].clientKey, inv[f].testName)
        /\ inv[f].pc \in {"create_get", "create_put"} =>
                ~inv[f].count.nan /\ inv[f].count.n \in 1..5

\* the snippet modal is showing, with the test name and a count in its step
\* state
C15_Witness ==
    \E f \in Flows :
        /\ Len(stack[f]) = 2
        /\ Top(stack[f]).callback_id = "crp_create_commit"
        /\ StringOf(Prop(StepState(Top(stack[f])), "testName")) = <<"t">>
        /\ "count" \in DOMAIN StepState(Top(stack[f]))

\* flow f submits the first modal in this step
SubmitsFirstModal(f) ==
    /\ Showing(f, "crp_pick_client_test")
    /\ <<stack[f], inv[f], submitted[f], calls[f], acks[f]>>
           # <<stack'[f], inv'[f], submitted'[f], calls'[f], acks'[f]>>

\* the client picked is no key of CLIENTS, or a key without a configuration
UnknownClient(selected) ==
    selected \notin DOMAIN CLIENTS \/ ~CLIENTS[selected].isObject

\* C16: a submission of the first modal that fails validation (no client, a
\* blank test name, or a client without a configuration) issues no remote
\* call and changes neither the modals nor the repository: it is answered by
\* one acknowledgement with error annotations.  When only the client is at
\* fault, the one annotation is on the client field.  A valid submission goes
\* on to the existence check.
C16_ValidationFailureStaysPut ==
    [][\A f \in Flows :
        SubmitsFirstModal(f) =>
            LET selected == submitted'[f][<<"client_block">>].selected
                name == submitted'[f][<<"testname_block">>].value
                empty == ~Truthy(selected) \/ ~NonBlank(name)
            IN  /\ (empty \/ UnknownClient(selected)) =>
                    /\ stack' = stack
                    /\ files' = files
                    /\ inv'[f].pc = "idle"
                    /\ calls'[f] = << >>
                    /\ Len(acks'[f]) = 1
                    /\ acks'[f][1].response_action = "errors"
                    /\ acks'[f][1].view = NoView
                    /\ acks'[f][1].errors # NoErrors
                /\ (~empty /\ UnknownClient(selected)) =>
                    acks'[f][1].errors =
                        [b \in {<<"client_block">>} |->
                            <<"Unknown client in configuration.">>]
                /\ ~(empty \/ UnknownClient(selected)) =>
                    inv'[f].pc = "pick_get"]_vars

\* a client without a configuration was picked with a test name, and the
\* client field alone is annotated
C16_Witness ==
    \E f \in Flows :
        /\ <<"client_block">> \in DOMAIN submitted[f]
        /\ submitted[f][<<"client_block">>].selected = <<"ghost">>
        /\ submitted[f][<<"testname_block">>].value = <<"t">>
        /\ Len(stack[f]) = 1
        /\ calls[f] = << >>
        /\ Len(acks[f]) = 1
        /\ DOMAIN acks[f][1].errors = {<<"client_block">>}

\* flow f gets the success modal with the given title in this step
RendersSuccess(f, title) ==
    /\ stack'[f] # << >>
    /\ Top(stack'[f]).callback_id = "noop"
    /\ Top(stack'[f]).title = title
    /\ stack'[f] # stack[f]

\* every call of the log returned, its writes are those of the paths in
\* their order, and the repository fs holds what they wrote
AllWritten(log, paths, fs) ==
    /\ \A j \in DOMAIN log : ~log[j].thrown
    /\ PathsOf(Puts(log)) = paths
    /\ \A j \in DOMAIN log :
        log[j].op = "put" =>
            /\ Succeeded(log[j].res)
            /\ IsFile(fs, log[j].path)
            /\ fs[log[j].path] = log[j].content

\* C17: the Created modal is rendered only by the create-commit handler
\* after all 2N writes of its submission were issued and returned
\* successfully, and the Updated modal only by the update-commit handler
\* after its 2 writes were; the repository then holds every target path.
C17_SuccessAfterAllWrites ==
    [][\A f \in Flows :
        /\ RendersSuccess(f, <<"Created">>) =>
            /\ inv[f].pc = "create_put"
            /\ AllWritten(calls'[f],
                          ExpectedCreatePaths(inv[f].clientKey, inv[f].testName,
                                              inv[f].count.n),
                          files')
        /\ RendersSuccess(f, <<"Updated">>) =>
            /\ inv[f].pc = "update_put_css"
            /\ AllWritten(calls'[f],
                          << VarPath(CLIENTS[inv[f].clientKey], inv[f].testName,
                                     inv[f].v, ".js"),
                             VarPath(CLIENTS[inv[f].clientKey], inv[f].testName,
                                     inv[f].v, ".css") >>,
                          files')]_vars

\* the Created modal of a submission with three variations
C17_Witness ==
    \E f \in Flows :
        /\ inv[f].pc = "idle"
        /\ stack[f] # << >>
        /\ Top(stack[f]).title = <<"Created">>
        /\ Len(Puts(calls[f])) = 6

\* the modal-submission handlers, by the callback_id of the modal they serve
SubmissionHandlers ==
    {"crp_pick_client_test", "crp_collect_variation_count", "crp_create_commit",
     "crp_update_commit"}

\* C18: a modal-submission handler (step 1, variation count, create commit,
\* update commit) has sent no acknowledgement while it waits for a remote
\* call, and exactly one when it returns, whether it returns with validation
\* errors, after a remote failure or with success.
C18_OneAcknowledgement ==
    [][\A f \in Flows :
        /\ inv'[f].pc # "idle" => acks'[f] = << >>
        /\ (/\ stack[f] # << >>
            /\ Top(stack[f]).callback_id \in SubmissionHandlers
            /\ inv'[f].pc = "idle"
            /\ <<stack[f], inv[f], submitted[f], calls[f], acks[f]>>
                   # <<stack'[f], inv'[f], submitted'[f], calls'[f], acks'[f]>>)
               => /\ Len(acks'[f]) = 1
                  /\ acks'[f][1].response_action \in {"errors", "update", "push"}
                  /\ stack'[f] = AfterAck(stack[f], acks'[f][1])]_vars

\* a commit handler has returned after a failed remote call, with its one
\* acknowledgement
C18_Witness ==
    \E f \in Flows :
        /\ inv[f].pc = "idle"
        /\ calls[f] # << >>
        /\ Last(calls[f]).thrown
        /\ Len(calls[f]) >= 2
        /\ Len(acks[f]) = 1
        /\ acks[f][1].view.title = <<"Error">>

\* the test directory of a step state is a file or a directory of fs
TestFound(st, fs) ==
    LET dir == DirPath(CLIENTS[StringOf(Prop(st, "clientKey"))],
                       StringOf(Prop(st, "testName")))
    IN  IsFile(fs, dir) \/ IsDirectory(fs, dir)

\* flow f is in the update branch: its update modal is showing, or is being
\* committed
InUpdateBranch(f) ==
    /\ stack[f] # << >>
    /\ Top(stack[f]).callback_id = "crp_update_commit"

\* the choice modal of flow f is showing with the existence flag false
ChoiceWithoutTest(f) ==
    /\ AfterExistenceCheck(f)
    /\ ~BooleanOf(Prop(StepState(Top(stack[f])), "exists"))

\* C19: a flow comes into the update branch (update modal, update-commit
\* handler and its writes) only with its existence flag true and after the
\* existence check of step 1 found the test directory; from the choice modal
\* with the flag false the only move goes to the variation-count modal of
\* the create branch.
C19_UpdateOnlyIfExists ==
    [][\A f \in Flows :
        /\ inv'[f].pc \in UpdatePcs => InUpdateBranch(f)'
        /\ InUpdateBranch(f)' =>
            /\ BooleanOf(Prop(StepState(Top(stack'[f])), "exists"))
            /\ TestFound(StepState(Top(stack'[f])), origin)
        /\ (ChoiceWithoutTest(f) /\ stack'[f] # stack[f])
               => Top(stack'[f]).callback_id = "crp_collect_variation_count"
        /\ (IssuesWrite(f) /\ inv[f].pc \in UpdatePcs)
               => TestFound(StepState(Top(stack[f])), origin)]_vars

\* an update-commit handler has written its JS file
C19_Witness ==
    \E f \in Flows :
        /\ inv[f].pc = "update_put_css"
        /\ Len(calls[f]) = 3
        /\ Succeeded(calls[f][3].res)
        /\ BooleanOf(Prop(StepState(Top(stack[f])), "exists"))

\* flow f shows a terminal modal with one of the titles
Terminal(f, titles) ==
    /\ inv[f].pc = "idle"
    /\ stack[f] # << >>
    /\ Top(stack[f]).callback_id = "noop"
    /\ Top(stack[f]).submit = << >>
    /\ Top(stack[f]).title \in titles

\* C20: when every remote call ends, a create-commit or update-commit
\* submission leads to a terminal modal, which is either the success modal
\* or the error modal and then stays; up to there the create-commit handler
\* has made at most 10 fetches and 10 writes, and the update-commit handler
\* at most 2 fetches and 2 writes.
C20_CommitTerminates ==
    /\ \A f \in Flows :
        /\ (inv[f].pc \in {"create_get", "create_put"})
               ~> (Terminal(f, {<<"Created">>}) \/ Terminal(f, {<<"Error">>}))
        /\ (inv[f].pc \in UpdatePcs)
               ~> (Terminal(f, {<<"Updated">>}) \/ Terminal(f, {<<"Error">>}))
    /\ [][\A f \in Flows :
            /\ inv[f].pc \in {"create_get", "create_put"} =>
                /\ Len(Gets(calls'[f])) <= 10
                /\ Len(Puts(calls'[f])) <= 10
            /\ inv[f].pc \in UpdatePcs =>
                /\ Len(Gets(calls'[f])) <= 2
                /\ Len(Puts(calls'[f])) <= 2
            /\ Terminal(f, {<<"Created">>, <<"Updated">>, <<"Error">>}) =>
                /\ stack'[f] = stack[f]
                /\ inv'[f].pc = "idle"]_vars

\* a create-commit submission with five variations has ended in success
\* after its 10 fetches and 10 writes
C20_Witness ==
    \E f \in Flows :
        /\ Terminal(f, {<<"Created">>})
        /\ Len(Gets(calls[f])) = 10
        /\ Len(Puts(calls[f])) = 10
=============================================================================
